---- MODULE Spec2Model ----
(***************************************************************************)
(* DragCalAnalysis (drag_analysis.py): the initial-guess generator, the    *)
(* post-processing of the fitted beta and the quality evaluation.          *)
(*                                                                         *)
(* The fit result holds IEEE-754 binary64 numbers, and the post-processing *)
(* and the quality evaluation compute on them as Python does: every        *)
(* operation rounds to nearest, ties to even.  A finite float is a record  *)
(* [k, s, e, m] of value (-1)^s * m * 2^e, its mantissa m of at most 53    *)
(* bits held in three 20-bit limbs, most significant first; subnormal      *)
(* numbers have e = -1074 and a shorter mantissa.  The two zeros, the      *)
(* infinities and nan are floats of the model as well, and an operation    *)
(* that raises ZeroDivisionError yields the value ZeroDivisionError.       *)
(*                                                                         *)
(* The guess generator has no operation that rounding can turn into a      *)
(* different branch (no % and no floor), and its numbers are exact         *)
(* rationals <<n, d>> in lowest terms with d > 0.  np.inf is <<1, 0>> and  *)
(* Python's None is the empty tuple.                                       *)
(***************************************************************************)
EXTENDS Integers, Sequences, FiniteSets, TLC

VARIABLES pc, data, freq_est, user_supplied, user_opt, options,
          fit_result, beta_fit, quality

vars == <<pc, data, freq_est, user_supplied, user_opt, options,
         fit_result, beta_fit, quality>>

(* ------------------------------ bounds --------------------------------- *)
MaxFreqNum == 3
MaxFreqDen == 2
MaxBetaNum == 6
BetaDen == 4
MaxChisq == 3
MaxK == 2
MaxX == 1

(* ------------------------- rational arithmetic ------------------------- *)
None == <<>>
Inf == <<1, 0>>

Abs(n) == IF n < 0 THEN -n ELSE n

RECURSIVE GCD(_, _)
GCD(a, b) == IF b = 0 THEN a ELSE GCD(b, a % b)

Rat(n, d) ==
  LET s == IF d < 0 THEN -1 ELSE 1
      g == GCD(Abs(n), Abs(d))
  IN <<(s * n) \div g, (s * d) \div g>>

RInt(n) == <<n, 1>>
RAdd(a, b) == Rat(a[1] * b[2] + b[1] * a[2], a[2] * b[2])
RSub(a, b) == Rat(a[1] * b[2] - b[1] * a[2], a[2] * b[2])
RMul(a, b) == Rat(a[1] * b[1], a[2] * b[2])
RDiv(a, b) == Rat(a[1] * b[2], a[2] * b[1])
RNeg(a) == <<-a[1], a[2]>>
RLt(a, b) == a[1] * b[2] < b[1] * a[2]
RLe(a, b) == a[1] * b[2] <= b[1] * a[2]
RMax(a, b) == IF RLt(a, b) THEN b ELSE a

Zero == RInt(0)
One == RInt(1)
Two == RInt(2)

(* ----------------------- 60-bit natural numbers ------------------------ *)
LimbBits == 20
LimbBase == 2 ^ LimbBits
MantBits == 53

NZero == <<0, 0, 0>>
NOne == <<0, 0, 1>>
NFromInt(n) == <<0, n \div LimbBase, n % LimbBase>>
NLt(a, b) ==
  \/ a[1] < b[1]
  \/ a[1] = b[1] /\ a[2] < b[2]
  \/ a[1] = b[1] /\ a[2] = b[2] /\ a[3] < b[3]
NOdd(a) == a[3] % 2 = 1

NAdd(a, b) ==
  LET s3 == a[3] + b[3]
      s2 == a[2] + b[2] + (s3 \div LimbBase)
      s1 == a[1] + b[1] + (s2 \div LimbBase)
  IN <<s1, s2 % LimbBase, s3 % LimbBase>>

\* a - b for a >= b
NSub(a, b) ==
  LET d3 == a[3] - b[3]
      b3 == IF d3 < 0 THEN 1 ELSE 0
      d2 == a[2] - b[2] - b3
      b2 == IF d2 < 0 THEN 1 ELSE 0
  IN <<a[1] - b[1] - b2, d2 + b2 * LimbBase, d3 + b3 * LimbBase>>

NShlLimbs(a, w) ==
  CASE w = 0 -> a
    [] w = 1 -> <<a[2], a[3], 0>>
    [] w = 2 -> <<a[3], 0, 0>>
    [] OTHER -> NZero

NShrLimbs(a, w) ==
  CASE w = 0 -> a
    [] w = 1 -> <<0, a[1], a[2]>>
    [] w = 2 -> <<0, 0, a[1]>>
    [] OTHER -> NZero

\* shifts by t < LimbBits bits; the caller keeps the result below 2^60
NShlBits(a, t) ==
  LET p == 2 ^ t
      q == 2 ^ (LimbBits - t)
  IN <<(a[1] % q) * p + (a[2] \div q),
       (a[2] % q) * p + (a[3] \div q),
       (a[3] % q) * p>>

NShrBits(a, t) ==
  LET p == 2 ^ t
      q == 2 ^ (LimbBits - t)
  IN <<a[1] \div p,
       (a[1] % p) * q + (a[2] \div p),
       (a[2] % p) * q + (a[3] \div p)>>

NShl(a, s) == NShlBits(NShlLimbs(a, s \div LimbBits), s % LimbBits)
NShr(a, s) == NShrBits(NShrLimbs(a, s \div LimbBits), s % LimbBits)
\* the s lowest bits of a
NLow(a, s) == NSub(a, NShl(NShr(a, s), s))

RECURSIVE BitLen(_)
BitLen(n) == IF n = 0 THEN 0 ELSE 1 + BitLen(n \div 2)

NBitLen(a) ==
  IF a[1] > 0 THEN 2 * LimbBits + BitLen(a[1])
  ELSE IF a[2] > 0 THEN LimbBits + BitLen(a[2])
  ELSE BitLen(a[3])

(* --------------------------- binary64 floats --------------------------- *)
\* exponent of the lowest mantissa bit of the smallest and of the largest
\* finite numbers
EMin == -1074
EMax == 971

FNum(s, e, m) == [k |-> "num", s |-> s, e |-> e, m |-> m]
FInf(s) == [k |-> "inf", s |-> s, e |-> 0, m |-> NZero]
FNaN == [k |-> "nan", s |-> 0, e |-> 0, m |-> NZero]
\* the operation raised ZeroDivisionError
ZeroDivisionError == [k |-> "err", s |-> 0, e |-> 0, m |-> NZero]
FSignedZero(s) == FNum(s, EMin, NZero)
FZero == FSignedZero(0)
IsZero(a) == a.k = "num" /\ a.m = NZero

\* the float nearest to (-1)^s * (m + a fraction) * 2^e, ties to even; the
\* fraction is nonzero when sticky, and m then has more than 54 bits.
\* Below 2^-1022 the mantissa is shorter (subnormal numbers); above the
\* largest finite number the result is an infinity.
FRound(s, m, e, sticky) ==
  IF m = NZero THEN FSignedZero(s)
  ELSE
    LET len == NBitLen(m)
        sh == IF len - MantBits > EMin - e THEN len - MantBits ELSE EMin - e
    IN IF sh <= 0
         THEN IF e + sh > EMax THEN FInf(s)
              ELSE FNum(s, e + sh, NShl(m, -sh))
         ELSE IF sh > 3 * LimbBits THEN FSignedZero(s)
         ELSE
           LET keep == NShr(m, sh)
               rem == NLow(m, sh)
               half == NShl(NOne, sh - 1)
               up == \/ NLt(half, rem)
                     \/ rem = half /\ (sticky \/ NOdd(keep))
               kept == IF up THEN NAdd(keep, NOne) ELSE keep
               over == NBitLen(kept) > MantBits
               e2 == IF over THEN e + sh + 1 ELSE e + sh
           IN IF e2 > EMax THEN FInf(s)
              ELSE FNum(s, e2, IF over THEN NShr(kept, 1) ELSE kept)

\* float(n) for an int n of less than 31 bits
FromInt(n) == FRound(IF n < 0 THEN 1 ELSE 0, NFromInt(Abs(n)), 0, FALSE)

\* a nonzero finite number with its mantissa moved up to 53 bits
Norm(a) ==
  LET up == MantBits - NBitLen(a.m)
  IN [a EXCEPT !.m = NShl(a.m, up), !.e = a.e - up]

FNeg(a) == IF a.k \in {"nan", "err"} THEN a ELSE [a EXCEPT !.s = 1 - a.s]
FAbs(a) == IF a.k \in {"nan", "err"} THEN a ELSE [a EXCEPT !.s = 0]
\* |a| < |b| for finite a and b
FMagLt(a, b) == a.e < b.e \/ (a.e = b.e /\ NLt(a.m, b.m))

\* a < b; false when one of them is nan
FLt(a, b) ==
  IF a.k = "nan" \/ b.k = "nan" THEN FALSE
  ELSE IF IsZero(a) /\ IsZero(b) THEN FALSE
  ELSE IF a.s # b.s THEN a.s = 1
  ELSE LET lo == IF a.s = 0 THEN a ELSE b
           hi == IF a.s = 0 THEN b ELSE a
       IN IF lo.k = "inf" THEN FALSE
          ELSE IF hi.k = "inf" THEN TRUE
          ELSE FMagLt(lo, hi)

FLe(a, b) ==
  IF a.k = "nan" \/ b.k = "nan" THEN FALSE ELSE ~FLt(b, a)

\* one step of long division: <<quotient, rest>> of (2 * rest) by d
DivStep(qr, d) ==
  LET r2 == NAdd(qr[2], qr[2])
      bit == ~NLt(r2, d)
  IN <<NAdd(NAdd(qr[1], qr[1]), IF bit THEN NOne ELSE NZero),
       IF bit THEN NSub(r2, d) ELSE r2>>

\* the loops of the division and of fmod run in chunks of ChunkLen steps: a
\* loop of chunks around a loop of steps, each evaluating its state (a
\* tuple) before it goes on
ChunkLen == 8

\* k steps of long division
RECURSIVE DivSteps(_, _, _)
DivSteps(qr, d, k) ==
  IF k <= 0 \/ qr = <<>> THEN qr
  ELSE DivSteps(DivStep(qr, d), d, k - 1)

\* n steps of long division, n a multiple of ChunkLen: <<quotient, rest>>
RECURSIVE DivLoop(_, _, _)
DivLoop(qr, d, n) ==
  IF n <= 0 \/ qr = <<>> THEN qr
  ELSE DivLoop(DivSteps(qr, d, ChunkLen), d, n - ChunkLen)

\* a / b (float_div): a zero divisor raises, whatever a is
FDiv(a, b) ==
  IF a.k = "err" \/ b.k = "err" \/ IsZero(b) THEN ZeroDivisionError
  ELSE IF a.k = "nan" \/ b.k = "nan" THEN FNaN
  ELSE IF a.k = "inf"
    THEN IF b.k = "inf" THEN FNaN ELSE FInf((a.s + b.s) % 2)
  ELSE IF b.k = "inf" \/ IsZero(a) THEN FSignedZero((a.s + b.s) % 2)
  ELSE
    LET x == Norm(a)
        y == Norm(b)
        first == ~NLt(x.m, y.m)
        qr == DivLoop(<<IF first THEN NOne ELSE NZero,
                        IF first THEN NSub(x.m, y.m) ELSE x.m>>, y.m,
                      MantBits + 3)
    IN FRound((a.s + b.s) % 2, qr[1], x.e - y.e - (MantBits + 3),
              qr[2] # NZero)

\* a + b: three guard bits, the bits shifted out of the smaller operand are
\* kept as one sticky bit
FAdd(a, b) ==
  IF a.k = "err" \/ b.k = "err" THEN ZeroDivisionError
  ELSE IF a.k = "nan" \/ b.k = "nan" THEN FNaN
  ELSE IF a.k = "inf"
    THEN IF b.k = "inf" /\ a.s # b.s THEN FNaN ELSE a
  ELSE IF b.k = "inf" THEN b
  ELSE IF IsZero(a)
    THEN IF IsZero(b) THEN FSignedZero(IF a.s = b.s THEN a.s ELSE 0) ELSE b
  ELSE IF IsZero(b) THEN a
  ELSE
    LET big == IF FMagLt(a, b) THEN b ELSE a
        small == IF FMagLt(a, b) THEN a ELSE b
        x == Norm(big)
        y == Norm(small)
        d == x.e - y.e
        mx == NShl(x.m, 3)
        y3 == NShl(y.m, 3)
        ys == NShr(y3, d)
        my == IF d >= 3 * LimbBits THEN NOne
              ELSE IF NLow(y3, d) # NZero /\ ~NOdd(ys) THEN NAdd(ys, NOne)
              ELSE ys
        r == IF x.s = y.s THEN NAdd(mx, my) ELSE NSub(mx, my)
    IN IF r = NZero THEN FZero ELSE FRound(x.s, r, x.e - 3, FALSE)

FSub(a, b) == FAdd(a, FNeg(b))

\* (2 * r) mod d for r < d
ModStep(r, d) ==
  LET r2 == NAdd(r, r)
  IN IF NLt(r2, d) THEN r2 ELSE NSub(r2, d)

\* (r * 2^k) mod d for r < d
RECURSIVE ModSteps(_, _, _)
ModSteps(r, d, k) ==
  IF k <= 0 \/ r = <<>> THEN r
  ELSE ModSteps(ModStep(r, d), d, k - 1)

\* (r * 2^n) mod d for r < d, by n doublings
RECURSIVE ModLoop(_, _, _)
ModLoop(r, d, n) ==
  IF n <= 0 \/ r = <<>> THEN r
  ELSE ModLoop(ModSteps(r, d, IF n < ChunkLen THEN n ELSE ChunkLen), d,
               n - ChunkLen)

\* (2 * acc + a * bit i of b) mod d, for acc, a < d
MulStep(acc, a, b, d, i) ==
  LET t == NAdd(NAdd(acc, acc), IF NOdd(NShr(b, i)) THEN a ELSE NZero)
      t1 == IF NLt(t, d) THEN t ELSE NSub(t, d)
  IN IF NLt(t1, d) THEN t1 ELSE NSub(t1, d)

\* the steps of the k bits of b from bit i down
RECURSIVE MulSteps(_, _, _, _, _, _)
MulSteps(acc, a, b, d, i, k) ==
  IF k <= 0 \/ acc = <<>> THEN acc
  ELSE MulSteps(MulStep(acc, a, b, d, i), a, b, d, i - 1, k - 1)

\* (acc * 2^(i+1) + a * (the i+1 lowest bits of b)) mod d, for i + 1 a
\* multiple of ChunkLen
RECURSIVE MulModLoop(_, _, _, _, _)
MulModLoop(acc, a, b, d, i) ==
  IF i < 0 \/ acc = <<>> THEN acc
  ELSE MulModLoop(MulSteps(acc, a, b, d, i, ChunkLen), a, b, d, i - ChunkLen)

\* (a * b) mod d for a, b < d
MulMod(a, b, d) == MulModLoop(NZero, a, b, d, MantBits + 2)

\* the exponents of two finite floats differ by less than 2^ExpBits
ExpBits == 12

\* acc^2 * 2^(bit i of n) mod d
PowStep(acc, n, i, d) ==
  LET sq == MulMod(acc, acc, d)
  IN IF (n \div 2 ^ i) % 2 = 0 THEN sq ELSE ModStep(sq, d)

\* the steps of the bits of n from bit i down to bit low
RECURSIVE PowSteps(_, _, _, _, _)
PowSteps(acc, n, i, d, low) ==
  IF i < low \/ acc = <<>> THEN acc
  ELSE PowSteps(PowStep(acc, n, i, d), n, i - 1, d, low)

\* 2^n mod d by squaring, from the highest bit of n down: acc is
\* 2^(n \div 2^(i+1)) mod d
RECURSIVE Pow2Loop(_, _, _, _)
Pow2Loop(acc, n, i, d) ==
  IF i < 0 \/ acc = <<>> THEN acc
  ELSE Pow2Loop(PowSteps(acc, n, i, d,
                         IF i < ChunkLen THEN 0 ELSE i - ChunkLen + 1),
                n, i - ChunkLen, d)

Pow2Mod(n, d) == Pow2Loop(NOne, n, ExpBits - 1, d)

\* (r * 2^n) mod d for r < d
ShiftMod(r, d, n) ==
  IF n <= 3 * LimbBits THEN ModLoop(r, d, n)
  ELSE LET p == Pow2Mod(n, d)
       IN IF p = <<>> THEN p ELSE MulMod(r, p, d)

\* C's fmod(a, b) for b nonzero: exact, with the sign of a
CFmod(a, b) ==
  IF a.k = "nan" \/ b.k = "nan" \/ a.k = "inf" THEN FNaN
  ELSE IF b.k = "inf" \/ IsZero(a) \/ FMagLt(a, b) THEN a
  ELSE
    LET x == Norm(a)
        y == Norm(b)
        r0 == IF NLt(x.m, y.m) THEN x.m ELSE NSub(x.m, y.m)
    IN FRound(a.s, ShiftMod(r0, y.m, x.e - y.e), y.e, FALSE)

\* Python's float a % b (float_rem): a zero b raises; fmod, moved by b to the
\* sign of b; a zero result takes the sign of b
PyMod(a, b) ==
  IF a.k = "err" \/ b.k = "err" \/ IsZero(b) THEN ZeroDivisionError
  ELSE
    LET mod == CFmod(a, b)
    IN IF IsZero(mod) THEN FSignedZero(b.s)
       ELSE IF FLt(b, FZero) # FLt(mod, FZero) THEN FAdd(mod, b)
       ELSE mod

(* ------------------------- post-processing ----------------------------- *)
\* line 213: ((beta + 1 / freq / 2) % (1 / freq)) - 1 / freq / 2
PostProcessBeta(beta, freq) ==
  LET period == FDiv(FromInt(1), freq)
      half == FDiv(period, FromInt(2))
  IN FSub(PyMod(FAdd(beta, half), period), half)

\* line 229: 1 / fit_freq.nominal_value / 2
HalfPeriod(freq) == FDiv(FDiv(FromInt(1), freq), FromInt(2))

(* --------------------------- fit result --------------------------------- *)
\* popt is ordered as the fit parameters amp, freq, beta, base; Python's
\* popt[1] and popt[2] are popt[2] and popt[3] here.
\* the smallest positive float, 5e-324
TinyFloat == FNum(0, EMin, NOne)
FreqVals ==
  {FDiv(FromInt(n), FromInt(d)) :
     n \in -MaxFreqNum..MaxFreqNum, d \in 1..MaxFreqDen} \cup {TinyFloat}
BetaVals ==
  {FDiv(FromInt(n), FromInt(BetaDen)) : n \in -MaxBetaNum..MaxBetaNum}
ChisqVals == 0..MaxChisq

NoFit == [popt |-> <<FZero, FromInt(1), FZero, FZero>>, reduced_chisq |-> 0,
          beta_err_ok |-> TRUE]

FitResults ==
  [popt : {<<FromInt(-1), f, b, FromInt(1)>> : f \in FreqVals, b \in BetaVals},
   reduced_chisq : ChisqVals,
   beta_err_ok : BOOLEAN]

\* lines 211-214; 1 / freq raises ZeroDivisionError when freq is zero, and
\* the % when 1 / freq is zero
PostProcessFitResult ==
  /\ pc = "fitted"
  /\ LET new_beta == PostProcessBeta(fit_result.popt[3], fit_result.popt[2])
     IN IF new_beta = ZeroDivisionError
          THEN /\ pc' = "error"
               /\ UNCHANGED fit_result
          ELSE /\ pc' = "post_processed"
               /\ fit_result' = [fit_result EXCEPT !.popt[3] = new_beta]
  /\ UNCHANGED <<data, freq_est, user_supplied, user_opt, options, beta_fit,
                 quality>>

\* lines 224-236; the criteria list is built before all() runs, so 1 / freq
\* is always evaluated and raises ZeroDivisionError when freq is zero
EvaluateQualityAny(fit_data) ==
  IF HalfPeriod(fit_data.popt[2]) = ZeroDivisionError
    THEN "ZeroDivisionError"
  ELSE IF \/ fit_data.reduced_chisq < 3
          \/ FLt(FAbs(fit_data.popt[3]), HalfPeriod(fit_data.popt[2]))
          \/ fit_data.beta_err_ok
    THEN "good"
    ELSE "bad"

EvaluateQualityInclusive(fit_data) ==
  IF HalfPeriod(fit_data.popt[2]) = ZeroDivisionError
    THEN "ZeroDivisionError"
  ELSE IF /\ fit_data.reduced_chisq < 3
          /\ FLe(FAbs(fit_data.popt[3]), HalfPeriod(fit_data.popt[2]))
          /\ fit_data.beta_err_ok
    THEN "good"
    ELSE "bad"

EvaluateQuality(fit_data) ==
  IF HalfPeriod(fit_data.popt[2]) = ZeroDivisionError
    THEN "ZeroDivisionError"
  ELSE IF /\ fit_data.reduced_chisq < 3
          /\ FLt(FAbs(fit_data.popt[3]), HalfPeriod(fit_data.popt[2]))
          /\ fit_data.beta_err_ok
    THEN "good"
    ELSE "bad"

RunEvaluateQuality ==
  /\ pc = "post_processed"
  /\ LET label == EvaluateQuality(fit_result)
     IN IF label = "ZeroDivisionError"
          THEN /\ pc' = "error"
               /\ UNCHANGED quality
          ELSE /\ pc' = "evaluated"
               /\ quality' = label
  /\ UNCHANGED <<data, freq_est, user_supplied, user_opt, options, fit_result,
                 beta_fit>>

(* --------------------------- fit options -------------------------------- *)
Params == {"amp", "freq", "beta", "base"}

\* InitialGuesses.set_if_empty / Boundaries.set_if_empty for one key
SetIfEmpty(dict, key, value) ==
  IF dict[key] = None THEN [dict EXCEPT ![key] = value] ELSE dict

EmptyDict == [p \in Params |-> None]
EmptyOpt == [p0 |-> EmptyDict, bounds |-> EmptyDict]

(* ------------------------------ data ------------------------------------ *)
Series == 0..2

\* default_options.fixed_parameters, line 128
fixed_parameters == [reps0 |-> 1, reps1 |-> 3, reps2 |-> 5]

SeriesLabels == <<<<0, "reps0">>, <<1, "reps1">>, <<2, "reps2">>>>

\* lines 149-154: Python's max returns the first element with the largest key
MaxRepsSeries ==
  LET i == CHOOSE i \in 1..3 :
             /\ \A j \in 1..3 : fixed_parameters[SeriesLabels[j][2]]
                                  <= fixed_parameters[SeriesLabels[i][2]]
             /\ \A j \in 1..(i - 1) : fixed_parameters[SeriesLabels[j][2]]
                                        < fixed_parameters[SeriesLabels[i][2]]
  IN SeriesLabels[i]

Xs(points) == [i \in 1..Len(points) |-> points[i].x]
Ys(points) == [i \in 1..Len(points) |-> points[i].y]

\* self._data() without a series name: the points of all series
DataAll(d) == d[0] \o d[1] \o d[2]

SeqMin(s) == CHOOSE m \in {s[i] : i \in 1..Len(s)} :
               \A i \in 1..Len(s) : RLe(m, s[i])
SeqMax(s) == CHOOSE m \in {s[i] : i \in 1..Len(s)} :
               \A i \in 1..Len(s) : RLe(s[i], m)
\* np.ptp
Ptp(s) == RSub(SeqMax(s), SeqMin(s))

\* np.linspace(start, stop, num)[j - 1]
NumBetaGuesses == 20
Linspace(start, stop, num, j) ==
  RAdd(start, RDiv(RMul(RInt(j - 1), RSub(stop, start)), RInt(num - 1)))

\* line 180, as quarters: -1, -0.5, -0.25
AmpFactors == <<Rat(-1, 1), Rat(-1, 2), Rat(-1, 4)>>

\* Python's "a or b" on an optional float: None and 0.0 are falsy
PyOr(a, b) == IF a = None \/ a = Zero THEN b ELSE a

(* -------------------------- guess generator ----------------------------- *)
\* line 166
AmpBoundSymmetric(ptp_y) == <<RMul(RInt(-2), ptp_y), RMul(Two, ptp_y)>>

AmpBound(ptp_y) == <<RMul(RInt(-2), ptp_y), Zero>>

\* line 171
BaseGuessFirstSeries(d) ==
  RDiv(RSub(SeqMax(Ys(d[0])), SeqMin(Ys(d[0]))), Two)

BaseGuess(d) ==
  RDiv(RSub(SeqMax(Ys(DataAll(d))), SeqMin(Ys(DataAll(d)))), Two)

\* lines 182-183
NewOptOverwrite(opt, amp, beta) ==
  [opt EXCEPT !.p0 = [opt.p0 EXCEPT !["amp"] = amp, !["beta"] = beta]]

NewOpt(opt, amp, beta) ==
  [opt EXCEPT !.p0 = SetIfEmpty(SetIfEmpty(opt.p0, "amp", amp), "beta", beta)]

\* lines 179-186: amp_factor is the outer loop, beta_guess the inner one
FanOut(opt, ptp_y, min_beta, max_beta) ==
  [n \in 1..(Len(AmpFactors) * NumBetaGuesses) |->
     LET a == ((n - 1) \div NumBetaGuesses) + 1
         b == ((n - 1) % NumBetaGuesses) + 1
     IN NewOpt(opt, RMul(ptp_y, AmpFactors[a]),
               Linspace(min_beta, max_beta, NumBetaGuesses, b))]

\* lines 145-186; 5 / user_opt.p0["freq"] raises ZeroDivisionError when the
\* frequency guess is zero.  fest is what curve.guess.frequency returns for
\* the curve with the most repetitions.
GenerateFitGuesses(u, d, fest) ==
  LET x_data == Xs(d[0])
      min_beta == SeqMin(x_data)
      max_beta == SeqMax(x_data)
      reps2 == fixed_parameters[MaxRepsSeries[2]]
      freqs_guess == RDiv(fest, RInt(reps2))
      p0a == SetIfEmpty(u.p0, "freq", freqs_guess)
  IN IF p0a["freq"] = Zero
       THEN [ok |-> FALSE, user_opt |-> [u EXCEPT !.p0 = p0a],
             options |-> <<>>]
       ELSE
         LET avg_x == RDiv(RAdd(max_beta, min_beta), Two)
             span_x == RSub(max_beta, min_beta)
             beta_bound == RMax(RDiv(RInt(5), p0a["freq"]), span_x)
             y_all == Ys(DataAll(d))
             ptp_y == Ptp(y_all)
             b1 == SetIfEmpty(u.bounds, "amp", AmpBound(ptp_y))
             b2 == SetIfEmpty(b1, "freq", <<Zero, Inf>>)
             b3 == SetIfEmpty(b2, "beta", <<RSub(avg_x, beta_bound),
                                            RAdd(avg_x, beta_bound)>>)
             b4 == SetIfEmpty(b3, "base", <<RSub(SeqMin(y_all), ptp_y),
                                            RAdd(SeqMax(y_all), ptp_y)>>)
             p0b == SetIfEmpty(p0a, "base", PyOr(p0a["amp"], BaseGuess(d)))
             opt == [p0 |-> p0b, bounds |-> b4]
         IN [ok |-> TRUE, user_opt |-> opt,
             options |-> FanOut(opt, ptp_y, min_beta, max_beta)]

RunGenerateFitGuesses ==
  /\ pc = "start"
  /\ LET r == GenerateFitGuesses(user_opt, data, freq_est)
     IN /\ pc' = IF r.ok THEN "generated" ELSE "error"
        /\ user_opt' = r.user_opt
        /\ options' = r.options
  /\ UNCHANGED <<data, freq_est, user_supplied, fit_result, beta_fit, quality>>

(* --------------------------- input spaces ------------------------------- *)
XVals == {RInt(n) : n \in 0..MaxX}
YVals == {Zero, Rat(3, 4), One}
Pt(x, y) == [x |-> x, y |-> y]

\* series-0 has two points, series-1 and series-2 one point each
DataSets ==
  {[i \in Series |-> IF i = 0 THEN <<Pt(x1, y1), Pt(x2, y2)>>
                     ELSE IF i = 1 THEN <<Pt(x1, y3)>>
                     ELSE <<Pt(x2, y4)>>] :
     x1 \in XVals, x2 \in XVals, y1 \in YVals, y2 \in YVals,
     y3 \in YVals, y4 \in YVals}

FreqEstVals == {Zero, RInt(5), RInt(50)}

UserGuesses ==
  {[p \in Params |-> IF p = "amp" THEN a ELSE IF p = "freq" THEN f
                     ELSE IF p = "beta" THEN b ELSE c] :
     a \in {None, Zero, Rat(-1, 2)}, f \in {None, Rat(1, 2)},
     b \in {None, Rat(1, 4)}, c \in {None, Rat(1, 2)}}

UserBounds ==
  {[p \in Params |-> IF p = "amp" THEN a ELSE IF p = "freq" THEN f
                     ELSE IF p = "beta" THEN b ELSE c] :
     a \in {None, <<RInt(-1), One>>}, f \in {None, <<RInt(-2), Two>>},
     b \in {None, <<RInt(-1), One>>}, c \in {None, <<Zero, One>>}}

NumEntries(dict) == Cardinality({p \in Params : dict[p] # None})

\* the user supplies nothing, one entry, or a guess and a bound for everything
UserOpts ==
  {u \in [p0 : UserGuesses, bounds : UserBounds] :
     \/ NumEntries(u.p0) + NumEntries(u.bounds) <= 1
     \/ NumEntries(u.p0) + NumEntries(u.bounds) = 2 * Cardinality(Params)}

SampleData == [i \in Series |-> IF i = 0 THEN <<Pt(Zero, Zero), Pt(One, One)>>
                                ELSE IF i = 1 THEN <<Pt(Zero, One)>>
                                ELSE <<Pt(One, Zero)>>]

(* --------------------------- specifications ----------------------------- *)
InitGuess ==
  /\ pc = "start"
  /\ data \in DataSets
  /\ freq_est \in FreqEstVals
  /\ user_supplied \in UserOpts
  /\ user_opt = user_supplied
  /\ options = <<>>
  /\ fit_result = NoFit
  /\ beta_fit = FZero
  /\ quality = "none"

NextGuess == RunGenerateFitGuesses

SpecGuess == InitGuess /\ [][NextGuess]_vars

InitFit ==
  /\ pc = "fitted"
  /\ data = SampleData
  /\ freq_est = RInt(5)
  /\ user_supplied = EmptyOpt
  /\ user_opt = EmptyOpt
  /\ options = <<>>
  /\ fit_result \in FitResults
  /\ beta_fit = fit_result.popt[3]
  /\ quality = "none"

NextFit == PostProcessFitResult \/ RunEvaluateQuality

SpecFit == InitFit /\ [][NextFit]_vars

(* ------------------------------ claims ---------------------------------- *)
Freq == fit_result.popt[2]
Beta == fit_result.popt[3]
\* beta + k / freq and 1 / (2 * freq), as Python computes them
Shift(beta, k, freq) == FAdd(beta, FDiv(FromInt(k), freq))
HalfPeriodOf(freq) == FDiv(FromInt(1), FAdd(freq, freq))
\* equal up to rounding: within 2^-40 of a period
Near(a, b, freq) ==
  FLe(FAbs(FSub(a, b)), [HalfPeriodOf(freq) EXCEPT !.e = @ - 39, !.s = 0])
NRange == (MaxBetaNum * MaxFreqNum) \div BetaDen + 2

\* C1: for freq > 0 and every integer k, post-processing beta + k/freq gives
\* the same canonical beta (up to rounding) as post-processing beta.
C1_Periodicity ==
  (pc = "post_processed" /\ FLt(FZero, Freq)) =>
    \A k \in -MaxK..MaxK :
      Near(PostProcessBeta(Shift(beta_fit, k, Freq), Freq), Beta, Freq)

\* C2: for freq > 0 the written beta is beta_fit + n/freq for an integer n
\* (up to rounding), its absolute value is at most 1/(2 freq), and no member
\* of the family {beta_fit + m/freq} is closer to zero (up to rounding).
C2_ClosestToZero ==
  (pc = "post_processed" /\ FLt(FZero, Freq)) =>
    LET family == [n \in -NRange..NRange |-> Shift(beta_fit, n, Freq)]
    IN /\ \E n \in -NRange..NRange : Near(Beta, family[n], Freq)
       /\ FLe(FAbs(Beta), HalfPeriodOf(Freq))
       /\ \A m \in -NRange..NRange :
            \/ FLe(FAbs(Beta), FAbs(family[m]))
            \/ Near(FAbs(Beta), FAbs(family[m]), Freq)

\* C3: with a fitted freq <= 0 the post-processing fails and returns no fit
\* result with a replaced beta.
C3_InvalidFreqFails ==
  pc = "post_processed" => FLt(FZero, Freq)

\* C4: the label is "good" exactly when reduced chi-squared < 3,
\* |beta| < 1/(2 freq) and the beta error is not significant, and "bad"
\* otherwise; reduced chi-squared >= 3 always gives "bad".
C4_QualityConjunctive ==
  /\ pc = "post_processed" => ~IsZero(Freq)
  /\ pc = "evaluated" =>
       /\ quality \in {"good", "bad"}
       /\ quality = "good" <=>
            /\ fit_result.reduced_chisq < 3
            /\ FLt(FAbs(Beta), HalfPeriodOf(Freq))
            /\ fit_result.beta_err_ok
       /\ fit_result.reduced_chisq >= 3 => quality = "bad"

C4_Witness ==
  /\ pc = "evaluated"
  /\ quality = "bad"
  /\ fit_result.reduced_chisq >= 3
  /\ FLt(FAbs(Beta), HalfPeriodOf(Freq))
  /\ fit_result.beta_err_ok

\* C10 as claimed: for freq > 0, once the fit result is post-processed,
\* |beta| < 1/(2 freq) holds.
C10_SecondCriterionAlwaysMet ==
  (pc \in {"post_processed", "evaluated"} /\ FLt(FZero, Freq)) =>
    FLt(FAbs(Beta), HalfPeriodOf(Freq))

\* C10 amended: for freq > 0 a post-processed beta meets |beta| < 1/(2 freq)
\* unless |beta| is exactly 1/(2 freq) or beta is nan (post-processing
\* overflowed); the label is then "bad", and otherwise it is decided by the
\* reduced chi-squared and the significance test alone.
C10_SecondCriterionUnlessBoundary ==
  (pc \in {"post_processed", "evaluated"} /\ FLt(FZero, Freq)) =>
    /\ \/ FLt(FAbs(Beta), HalfPeriodOf(Freq))
       \/ FAbs(Beta) = HalfPeriodOf(Freq)
       \/ Beta = FNaN
    /\ pc = "evaluated" =>
         (quality = "good" <=>
            /\ fit_result.reduced_chisq < 3
            /\ fit_result.beta_err_ok
            /\ FAbs(Beta) # HalfPeriodOf(Freq)
            /\ Beta # FNaN)

C10_Witness ==
  /\ pc = "evaluated"
  /\ FLt(FZero, Freq)
  /\ Beta = FNeg(HalfPeriodOf(Freq))
  /\ fit_result.reduced_chisq < 3
  /\ fit_result.beta_err_ok
  /\ quality = "bad"

\* the scanned data, read off the state independently of the generator
AllY == UNION {{data[s][i].y : i \in 1..Len(data[s])} : s \in Series}
Series0X == {data[0][i].x : i \in 1..Len(data[0])}
MinOf(S) == CHOOSE m \in S : \A e \in S : RLe(m, e)
MaxOf(S) == CHOOSE m \in S : \A e \in S : RLe(e, m)
PtpY == RSub(MaxOf(AllY), MinOf(AllY))
InBound(v, bound) == RLe(bound[1], v) /\ RLe(v, bound[2])

\* C5: a guess or a bound the user supplied is carried unchanged by every
\* candidate; the generator fills only the entries that were empty.
C5_UserValuesKept ==
  pc = "generated" =>
    \A i \in 1..Len(options) : \A p \in Params :
      /\ user_supplied.p0[p] # None =>
           options[i].p0[p] = user_supplied.p0[p]
      /\ user_supplied.bounds[p] # None =>
           options[i].bounds[p] = user_supplied.bounds[p]

C5_Witness ==
  /\ pc = "generated"
  /\ Len(options) > 0
  /\ \A p \in Params : user_supplied.p0[p] # None
  /\ \A p \in Params : user_supplied.bounds[p] # None
  /\ user_supplied.p0["amp"] # RNeg(PtpY)
  /\ user_supplied.bounds["amp"] # <<RMul(RInt(-2), PtpY), Zero>>

\* C6: without user guesses the generator returns exactly 60 candidates, one
\* per pair of an amplitude factor in (-1, -0.5, -0.25) and one of 20 evenly
\* spaced beta values from the smallest to the largest scanned x, with amp
\* guess factor * ptp(y) and that beta guess.
C6_SixtyCandidates ==
  (pc # "start" /\ \A p \in Params : user_supplied.p0[p] = None) =>
    /\ pc = "generated"
    /\ Len(options) = 60
    /\ \A n \in 0..59 :
         /\ options[n + 1].p0["amp"] =
              RMul(PtpY, CASE n \div 20 = 0 -> RInt(-1)
                           [] n \div 20 = 1 -> Rat(-1, 2)
                           [] n \div 20 = 2 -> Rat(-1, 4))
         /\ options[n + 1].p0["beta"] =
              RAdd(MinOf(Series0X),
                   RMul(Rat(n % 20, 19),
                        RSub(MaxOf(Series0X), MinOf(Series0X))))

\* (C6, the part that holds) the generator raises at line 162 exactly when
\* the frequency estimate is zero, and otherwise returns 60 candidates
SixtyCandidatesUnlessZeroEstimate ==
  (pc # "start" /\ \A p \in Params : user_supplied.p0[p] = None) =>
    /\ pc = "error" <=> freq_est = Zero
    /\ pc = "generated" => Len(options) = 60

\* C7 as claimed: in every candidate the amp bound is (-2 ptp(y), 0).
C7_AmpBoundAlways ==
  pc = "generated" =>
    \A i \in 1..Len(options) :
      options[i].bounds["amp"] = <<RMul(RInt(-2), PtpY), Zero>>

\* C7 amended: when the user supplied no amp bound, the amp bound of every
\* candidate is (-2 ptp(y), 0); a user-supplied amp bound is kept as it is.
C7_AmpBoundUnlessUser ==
  pc = "generated" =>
    \A i \in 1..Len(options) :
      options[i].bounds["amp"] =
        IF user_supplied.bounds["amp"] = None
          THEN <<RMul(RInt(-2), PtpY), Zero>>
          ELSE user_supplied.bounds["amp"]

C7_Witness ==
  /\ pc = "generated"
  /\ user_supplied.bounds["amp"] = None
  /\ PtpY # Zero
  /\ options[60].bounds["amp"][2] = Zero

\* C8: with neither an amp guess nor a base guess from the user, the base
\* guess of every candidate is (max(y) - min(y)) / 2 over all series.
C8_BaseGuessHalfRange ==
  (/\ pc = "generated"
   /\ user_supplied.p0["amp"] = None
   /\ user_supplied.p0["base"] = None) =>
    \A i \in 1..Len(options) :
      options[i].p0["base"] = RDiv(RSub(MaxOf(AllY), MinOf(AllY)), Two)

C8_Witness ==
  /\ pc = "generated"
  /\ user_supplied.p0["amp"] = None
  /\ user_supplied.p0["base"] = None
  /\ Len(options) = 60
  /\ data[0][1].y = data[0][2].y
  /\ options[1].p0["base"] # Zero

\* C9: with no user guesses and no user bounds and a positive frequency
\* estimate, every guess of every candidate lies inside its bound.
C9_GuessesInsideBounds ==
  (pc = "generated" /\ user_supplied = EmptyOpt /\ RLt(Zero, freq_est)) =>
    \A i \in 1..Len(options) : \A p \in Params :
      InBound(options[i].p0[p], options[i].bounds[p])

\* (C9, the part that holds) the same for amp, freq and beta only
GuessesInsideBoundsExceptBase ==
  (pc = "generated" /\ user_supplied = EmptyOpt /\ RLt(Zero, freq_est)) =>
    \A i \in 1..Len(options) : \A p \in Params \ {"base"} :
      InBound(options[i].p0[p], options[i].bounds[p])

====
